---- MODULE Spec2Model ----
(***************************************************************************)
(* State-machine model of the realtime scam-detection client (src/main.py) *)
(* and of its control surface (call/start, call/end).                      *)
(*                                                                         *)
(* The program is a single asyncio event loop: the code between two        *)
(* suspension points (await of a network call, a queue operation with a    *)
(* timeout, a sleep, a thread) runs atomically.  Every action below is one *)
(* such atomic block; a task's position is the await it is suspended in.   *)
(***************************************************************************)
EXTENDS Integers, Sequences, FiniteSets

(* ------------------------------ bounds -------------------------------- *)
\* call/start and call/end requests the control surface receives.
MaxRequests == 3
\* Frames the capture source delivers to one session.
MaxFrames == 3
\* Inbound websocket messages the server sends to one session.
MaxMsgs == 2
\* config.WS_MAX_RETRIES where the retry budget is not what is examined.
FewRetries == 2
\* Largest value of config.WS_MAX_RETRIES tried by the connection spec.
MaxRetriesBound == 7
\* Scores are taken this far below 1 and above 10.
ScoreSpan == 10
\* config.AUDIO_QUEUE_MAX_SIZE (100 in src/config.py:81), scaled down.
AUDIO_QUEUE_MAX_SIZE == 2

(* -------------------------- program constants -------------------------- *)
WS_MAX_RETRIES == 5
WS_RETRY_BASE_DELAY == 2
WS_RETRY_MAX_DELAY == 60
NOTIFICATION_THRESHOLD == 4
SCAM_SCORE_SAFE_MAX == 3
SCAM_SCORE_POSSIBLE_MIN == 4
SCAM_SCORE_POSSIBLE_MAX == 7
SCAM_SCORE_DEFINITE_MIN == 8

None == "None"
user_uuid == "user-1234"

\* get_scam_category: the category of a score and the notification priority
\* that goes with it.
get_scam_category(score) ==
    IF 1 <= score /\ score <= SCAM_SCORE_SAFE_MAX
    THEN [category |-> "Not a Scam", priority |-> "default"]
    ELSE IF SCAM_SCORE_POSSIBLE_MIN <= score /\ score <= SCAM_SCORE_POSSIBLE_MAX
    THEN [category |-> "Possible Scam", priority |-> "high"]
    ELSE IF score >= SCAM_SCORE_DEFINITE_MIN
    THEN [category |-> "Definitely Scam", priority |-> "max"]
    ELSE [category |-> "Unknown", priority |-> "default"]

(* ---------------- JSON texts as json.loads sees them -------------------- *)
\* A Python value produced by json.loads.  t is the Python type; n the
\* integer payload (for a float: its integral part, which is what int()
\* keeps); has the keys "response"/"score" the value contains (dict keys,
\* list elements, substrings of a str); score the value stored under "score".
Scalar(t, n) == [t |-> t, n |-> n]
PyValue(t, n, has, score) == [t |-> t, n |-> n, has |-> has, score |-> score]
NoScore == Scalar("absent", 0)

ScoreInts == {0, 3, 4, 6, 11}
ScoreValues ==
    {Scalar("int", n) : n \in ScoreInts}
        \cup {Scalar("float", 6), Scalar("numstr", 8), Scalar("str", 0),
              Scalar("null", 0), Scalar("list", 0)}

Keys == {"response", "score"}

JsonValues ==
    {PyValue("int", 5, {}, NoScore), PyValue("null", 0, {}, NoScore)}
        \cup {PyValue(t, 0, h, NoScore) : t \in {"str", "list"}, h \in {{}, Keys}}
        \cup {PyValue("dict", 0, {}, NoScore),
              PyValue("dict", 0, {"response"}, NoScore),
              PyValue("dict", 0, {"score"}, Scalar("int", 6))}
        \cup {PyValue("dict", 0, Keys, sc) : sc \in ScoreValues}

\* A transcript text: prose (not JSON) or the JSON encoding of a value.
Prose == [k |-> "prose", v |-> PyValue("null", 0, {}, NoScore)]
Json(v) == [k |-> "json", v |-> v]
Texts == {Prose} \cup {Json(v) : v \in JsonValues}

\* A websocket message: not JSON at all, JSON that is not an object, or an
\* event object with its "type" ("missing" when the key is absent) and its
\* "transcript".
EventTypes ==
    {"conversation.item.input_audio_transcription.completed",
     "response.audio.delta", "error", "other", "missing"}
Message(k, type, text) == [k |-> k, type |-> type, transcript |-> text]
Messages ==
    {Message("notjson", "missing", Prose), Message("nonobject", "missing", Prose)}
        \cup {Message("object", ty, Prose) : ty \in EventTypes}
        \cup {Message("object", "response.audio_transcript.done", tx) : tx \in Texts}

\* int(x) of Python on the value stored under "score".
python_int(sc) ==
    CASE sc.t \in {"int", "float", "numstr", "bool"} -> [exc |-> "none", val |-> sc.n]
      [] sc.t = "str" -> [exc |-> "ValueError", val |-> 0]
      [] OTHER -> [exc |-> "TypeError", val |-> 0]

\* parse_transcript with a narrower except clause: a text that is not JSON
\* leaves the loop.
parse_transcript_uncaught(text) ==
    IF text.k = "prose" THEN [r |-> "raise", score |-> 0]
    ELSE LET data == text.v IN
         IF data.t \notin {"dict", "str", "list"}
         THEN [r |-> "raise", score |-> 0]
         ELSE IF ~(Keys \subseteq data.has) THEN [r |-> "skip", score |-> 0]
         ELSE IF data.t # "dict" THEN [r |-> "raise", score |-> 0]
         ELSE LET i == python_int(data.score) IN
              CASE i.exc = "none" -> [r |-> "assessment", score |-> i.val]
                [] i.exc = "ValueError" -> [r |-> "skip", score |-> 0]
                [] OTHER -> [r |-> "raise", score |-> 0]

\* Lines 510-530 of receive_messages up to the first await: the outcome of
\* parsing a transcript.  "assessment": save_call_data is about to be called
\* with score; "skip": nothing happens (key missing, or an exception the
\* inner except clause catches); "raise": an exception the inner clause
\* does not catch leaves the async-for loop.
parse_transcript(text) ==
    IF text.k = "prose" THEN [r |-> "skip", score |-> 0]
    ELSE LET data == text.v IN
         IF data.t \notin {"dict", "str", "list"}
         THEN [r |-> "raise", score |-> 0]
         ELSE IF ~(Keys \subseteq data.has) THEN [r |-> "skip", score |-> 0]
         ELSE IF data.t # "dict" THEN [r |-> "raise", score |-> 0]
         ELSE LET i == python_int(data.score) IN
              CASE i.exc = "none" -> [r |-> "assessment", score |-> i.val]
                [] i.exc = "ValueError" -> [r |-> "skip", score |-> 0]
                [] OTHER -> [r |-> "raise", score |-> 0]

\* dispatch raising on an "error" event, which ends receive_messages.
dispatch_error_fatal(m) ==
    IF m.k # "object" \/ m.type = "error" THEN [r |-> "raise", score |-> 0]
    ELSE IF m.type = "response.audio_transcript.done"
         THEN parse_transcript(m.transcript)
         ELSE [r |-> "skip", score |-> 0]

\* The body of the async-for loop of receive_messages for one message.
dispatch(m) ==
    IF m.k # "object" THEN [r |-> "raise", score |-> 0]
    ELSE IF m.type = "response.audio_transcript.done"
         THEN parse_transcript(m.transcript)
         ELSE [r |-> "skip", score |-> 0]


(* ------------------------------- state --------------------------------- *)
VARIABLES
    realtime_client,  \* the global handle: 0 is None, else an index of client
    client_lock,      \* "free", or the handler suspended while holding it
    client,           \* every RealtimeClient constructed so far, in order
    APP_CONFIG,       \* the --source argument: "mic" or "arecord"
    cfg,              \* config values a specification varies (WS_MAX_RETRIES)
    env,              \* what the environment will do: control requests still
                      \* to come, frames and messages one session is given
    response          \* the status of the response a handler returned last

vars == <<realtime_client, client_lock, client, APP_CONFIG, cfg, env, response>>

\* RealtimeClient.__init__, followed by the three assignments of call_start
\* and asyncio.create_task(realtime_client.start()).  Besides the object's
\* fields the record holds the position of each of its tasks and what an
\* observer has seen the session do.
RealtimeClient(source, instructions, event) ==
    [ source |-> source, input_stream |-> None, output_stream |-> None,
      ws |-> None, arecord_process |-> None,
      SYSTEM_INSTRUCTIONS |-> instructions,
      phone_number |-> event.phone_number, fcm_token |-> event.fcm_token,
      running |-> FALSE, audio_queue |-> <<>>, reconnect_attempts |-> 0,
      call_id |-> event.call_id,
      \* task positions
      start |-> "scheduled", attempt |-> 0,
      producer |-> "none", prod_frame |-> 0,
      consumer |-> "none", cons_frame |-> 0,
      receiver |-> "none", recv_score |-> 0,
      \* observations
      connect_result |-> "pending", attempts |-> 0, delays |-> <<>>,
      captured |-> 0, wire |-> <<>>, put_dropped |-> {}, send_timeouts |-> {},
      send_closed |-> {},
      inbound |-> <<>>, dispatched |-> <<>>, handled |-> 0, saved |-> <<>>,
      notified |-> <<>>,
      setup_error |-> FALSE, stopped |-> FALSE ]

\* The body of a call/start request (CallStartEvent).
CallEvents ==
    { [call_id |-> "call-1", phone_number |-> "+111", exists_in_contacts |-> TRUE,
       fcm_token |-> "tok-1"],
      [call_id |-> "call-2", phone_number |-> "+222", exists_in_contacts |-> FALSE,
       fcm_token |-> ""] }

\* The instructions string call_start builds from the event.
Instructions(event) ==
    [caller |-> event.phone_number, known |-> event.exists_in_contacts]

(* --------------------------- RealtimeClient ---------------------------- *)
\* Closing a stream or terminating the subprocess that was opened.
Release(h) == IF h = None THEN None ELSE "closed"

\* RealtimeClient.cleanup
cleanup(s) ==
    [s EXCEPT !.input_stream = Release(@), !.output_stream = Release(@),
              !.arecord_process = Release(@)]

\* start_finally without its first statement: running is left as it is.
start_finally_running(s) ==
    IF s.ws = None THEN [cleanup(s) EXCEPT !.start = "done"]
    ELSE [s EXCEPT !.start = "closing"]

\* How wait_for(self.ws.close(), 5.0) may end.
CloseOutcomes == {"closed", "raised", "timeout"}

\* close_ws without its except clause: the exception of a close that raised
\* or timed out reaches the caller.
close_ws_uncaught(s, outcome) ==
    IF s.ws = None THEN [client |-> s, exc |-> "none"]
    ELSE [client |-> [s EXCEPT !.ws = "closed"],
          exc |-> CASE outcome = "raised" -> "Exception"
                    [] outcome = "timeout" -> "TimeoutError"
                    [] OTHER -> "none"]

\* close_ws from its await on: the close returned, raised or timed out; an
\* exception is logged by the except clause.  client is the session
\* afterwards (the connection is taken to be closed in all three cases),
\* exc the exception that reaches the caller.
close_ws(s, outcome) ==
    IF s.ws = None THEN [client |-> s, exc |-> "none"]
    ELSE [client |-> [s EXCEPT !.ws = "closed"], exc |-> "none"]

\* The finally clause of start(), up to the await inside close_ws:
\* close_ws suspends only when self.ws is set.
start_finally(s) ==
    LET s1 == [s EXCEPT !.running = FALSE] IN
    IF s1.ws = None THEN [cleanup(s1) EXCEPT !.start = "done"]
    ELSE [s1 EXCEPT !.start = "closing"]

\* An exception raised while the capture, the output stream or the session
\* is set up: start() logs it and runs its finally clause.
setup_failed(s) == start_finally([s EXCEPT !.setup_error = TRUE])

\* configure_session up to its await of ws.send.
configure_session(s) == [s EXCEPT !.start = "configure"]

\* start(): self.output_stream = self.audio.open(output=True), which may
\* raise, then configure_session.
open_output_stream(s) ==
    {configure_session([s EXCEPT !.output_stream = "open"]), setup_failed(s)}

\* setup_bluetooth_audio from subprocess.Popen to the sleep after it; Popen
\* may raise.
spawn_arecord(s) ==
    {[s EXCEPT !.arecord_process = "open", !.start = "arecord_sleep"],
     setup_failed(s)}

\* setup_audio_capture up to its first await (none in "mic" mode).
setup_audio_capture(s) ==
    IF s.source = "mic"
    THEN open_output_stream([s EXCEPT !.input_stream = "open"]) \cup {setup_failed(s)}
    ELSE {[s EXCEPT !.start = "echo_sleep"]} \cup spawn_arecord(s)

\* RetryDelay without the cap at WS_RETRY_MAX_DELAY.
RetryDelay_uncapped(attempt) == WS_RETRY_BASE_DELAY * (2 ^ attempt)

\* The backoff delay of connect_websocket after failed attempt number
\* attempt (0-based).
RetryDelay(attempt) ==
    LET d == WS_RETRY_BASE_DELAY * (2 ^ attempt) IN
    IF d < WS_RETRY_MAX_DELAY THEN d ELSE WS_RETRY_MAX_DELAY

\* connect_websocket whose caller ignores the result: after the last failed
\* attempt start() goes on to set up the capture.
connect_websocket_unchecked(s, outcome, max_retries) ==
    LET s1 == [s EXCEPT !.attempts = @ + 1] IN
    IF outcome = "ok"
    THEN setup_audio_capture(
             [s1 EXCEPT !.ws = "open", !.reconnect_attempts = 0,
                        !.connect_result = "True"])
    ELSE IF s.attempt < max_retries - 1
         THEN {[s1 EXCEPT !.delays = Append(@, RetryDelay(s.attempt)),
                          !.start = "retry_sleep"]}
         ELSE setup_audio_capture([s1 EXCEPT !.connect_result = "False"])

\* One attempt of connect_websocket resolving with outcome "ok", "refused"
\* or "timeout", and what start() does next up to its next await.
connect_websocket(s, outcome, max_retries) ==
    LET s1 == [s EXCEPT !.attempts = @ + 1] IN
    IF outcome = "ok"
    THEN setup_audio_capture(
             [s1 EXCEPT !.ws = "open", !.reconnect_attempts = 0,
                        !.connect_result = "True"])
    ELSE IF s.attempt < max_retries - 1
         THEN {[s1 EXCEPT !.delays = Append(@, RetryDelay(s.attempt)),
                          !.start = "retry_sleep"]}
         ELSE {start_finally([s1 EXCEPT !.connect_result = "False"])}

\* The while-condition of audio_producer and the submission of the next read.
producer_loop(s) ==
    [s EXCEPT !.producer = IF s.running THEN "read" ELSE "done", !.prod_frame = 0]

\* The while-condition of audio_consumer and the next queue get.
consumer_loop(s) ==
    [s EXCEPT !.consumer = IF s.running THEN "get" ELSE "done", !.cons_frame = 0]

\* send_notification without its token test: messaging.send is called with
\* whatever token the session has.
send_notification_unchecked(s) ==
    LET call == [evt |-> Len(s.inbound), phone_number |-> s.phone_number,
                 scam_score |-> s.recv_score, token |-> s.fcm_token] IN
    [s EXCEPT !.notified = Append(@, call), !.receiver = "notify"]

\* send_notification up to its await: without a token it returns False at
\* once; otherwise it waits for messaging.send in a thread.
send_notification(s) ==
    LET call == [evt |-> Len(s.inbound), phone_number |-> s.phone_number,
                 scam_score |-> s.recv_score, token |-> s.fcm_token] IN
    [s EXCEPT !.notified = Append(@, call),
              !.receiver = IF s.fcm_token \in {None, ""} THEN "recv" ELSE "notify",
              !.handled = IF s.fcm_token \in {None, ""} THEN Len(s.inbound) ELSE @]


\* after_save without the threshold test: every saved score is notified.
after_save_always(s) == send_notification(s)

\* after_save notifying only strictly above the threshold.
after_save_strict(s) ==
    IF s.recv_score > NOTIFICATION_THRESHOLD THEN send_notification(s)
    ELSE [s EXCEPT !.receiver = "recv", !.handled = Len(s.inbound)]

\* The receiver after save_call_data returned: the threshold test of
\* receive_messages and the call of send_notification.
after_save(s) ==
    IF s.recv_score >= NOTIFICATION_THRESHOLD THEN send_notification(s)
    ELSE [s EXCEPT !.receiver = "recv", !.handled = Len(s.inbound)]

\* The call_id argument of the receiver: self.call_id or "unknown".
CallIdArg(call_id) == IF call_id \in {None, ""} THEN "unknown" ELSE call_id

\* save_call_data as the receiver calls it, up to its first await: an
\* out-of-range score is rejected before any await, so the receiver goes on
\* at once; otherwise the receiver waits for the insert attempts.
save_call_data(s) ==
    LET call == [evt |-> Len(s.inbound), user_uuid |-> user_uuid,
                 scam_score |-> s.recv_score, phone_number |-> s.phone_number,
                 call_id |-> CallIdArg(s.call_id)]
        s1 == [s EXCEPT !.saved = Append(@, call)] IN
    IF 1 <= s.recv_score /\ s.recv_score <= 10
    THEN [s1 EXCEPT !.receiver = "save"]
    ELSE after_save(s1)

\* What save_call_data returns after its awaits: the insert result, or None
\* when every attempt timed out or raised.
SaveResults == {"InsertOneResult", None}

\* save_returned skipping the notification when the save failed.
save_returned_raising(s, result) ==
    IF result = None THEN [s EXCEPT !.receiver = "recv", !.handled = Len(s.inbound)]
    ELSE after_save(s)

\* receive_messages when the awaited save_call_data returns: the result is
\* not looked at.
save_returned(s, result) == after_save(s)

\* What send_notification returns after its await: True when messaging.send
\* returned, False when it timed out or raised.
NotifyResults == {TRUE, FALSE}

\* receive_messages when the awaited send_notification returns: the result
\* is not looked at, the loop takes the next message.
notify_returned(s, result) ==
    [s EXCEPT !.receiver = "recv", !.handled = Len(s.inbound)]

\* The fields call/start may update, as they are when an event is dispatched.
CallFields(s) ==
    [phone_number |-> s.phone_number, fcm_token |-> s.fcm_token, call_id |-> s.call_id]

\* One message m taken from the connection by the async-for loop of
\* receive_messages, up to the next await.
receive_message(s, m) ==
    LET d == dispatch(m)
        s1 == [s EXCEPT !.inbound = Append(@, m),
                        !.dispatched = Append(@, CallFields(s))] IN
    CASE d.r = "raise" -> [s1 EXCEPT !.receiver = "done"]
      [] d.r = "skip" -> [s1 EXCEPT !.handled = Len(s1.inbound)]
      [] OTHER -> save_call_data([s1 EXCEPT !.recv_score = d.score])

\* An outbound protocol message: its "type" and, for an append, the frame
\* its "audio" field encodes.
Outbound(type, frame) == [type |-> type, audio |-> frame]

(* ------------------------ actions of one session ----------------------- *)
Put(c, s) == client' = [client EXCEPT ![c] = s]
Control == <<realtime_client, client_lock, APP_CONFIG, cfg, env, response>>
Live(c) == c \in 1..Len(client)

\* start(): self.running = True and the first connection attempt.
start_begin(c) ==
    /\ Live(c) /\ client[c].start = "scheduled"
    /\ Put(c, [client[c] EXCEPT !.running = TRUE, !.start = "connecting"])
    /\ UNCHANGED Control

\* A connection attempt succeeds, is refused or times out.
connect_attempt(c) ==
    /\ Live(c) /\ client[c].start = "connecting"
    /\ \E outcome \in {"ok", "refused", "timeout"} :
         \E s \in connect_websocket(client[c], outcome, cfg.WS_MAX_RETRIES) : Put(c, s)
    /\ UNCHANGED Control

\* asyncio.sleep(delay) of connect_websocket returns: the next attempt.
retry_sleep(c) ==
    /\ Live(c) /\ client[c].start = "retry_sleep"
    /\ Put(c, [client[c] EXCEPT !.attempt = @ + 1, !.start = "connecting"])
    /\ UNCHANGED Control

\* setup_bluetooth_audio: the sleep after loading the echo-cancel module
\* returns; the capture process is spawned.
echo_sleep(c) ==
    /\ Live(c) /\ client[c].start = "echo_sleep"
    /\ \E s \in spawn_arecord(client[c]) : Put(c, s)
    /\ UNCHANGED Control

\* setup_bluetooth_audio: the sleep after Popen returns; poll() tells
\* whether the capture process is still alive.
arecord_sleep(c) ==
    /\ Live(c) /\ client[c].start = "arecord_sleep"
    /\ \E s \in {setup_failed(client[c])}
                   \cup (IF client[c].arecord_process = "open"
                         THEN open_output_stream(client[c]) ELSE {}) : Put(c, s)
    /\ UNCHANGED Control

\* configure_sent starting the three tasks without sending session.update.
configure_sent_silent(c) ==
    /\ Live(c) /\ client[c].start = "configure"
    /\ \/ /\ client[c].ws = "open"
          /\ Put(c, [client[c] EXCEPT !.start = "gather", !.producer = "scheduled",
                                      !.consumer = "scheduled", !.receiver = "scheduled"])
       \/ Put(c, start_finally(client[c]))
    /\ UNCHANGED Control

\* configure_session: ws.send(session.update) returns, times out or finds
\* the connection closed; on success asyncio.gather starts the three tasks.
configure_sent(c) ==
    /\ Live(c) /\ client[c].start = "configure"
    /\ \/ /\ client[c].ws = "open"
          /\ Put(c, [client[c] EXCEPT !.wire = Append(@, Outbound("session.update", 0)),
                                      !.start = "gather", !.producer = "scheduled",
                                      !.consumer = "scheduled", !.receiver = "scheduled"])
       \/ Put(c, setup_failed(client[c]))
    /\ UNCHANGED Control

\* asyncio.gather returns once all three tasks have returned.
gather_return(c) ==
    /\ Live(c) /\ client[c].start = "gather"
    /\ client[c].producer = "done" /\ client[c].consumer = "done"
    /\ client[c].receiver = "done"
    /\ Put(c, start_finally(client[c]))
    /\ UNCHANGED Control

\* start_close_ws returning without the call of cleanup().
start_close_ws_unreleased(c) ==
    /\ Live(c) /\ client[c].start = "closing"
    /\ \E outcome \in CloseOutcomes :
         Put(c, [close_ws(client[c], outcome).client EXCEPT !.start = "done"])
    /\ UNCHANGED Control

\* The close_ws of start()'s finally clause returns; cleanup() follows (an
\* exception reaching the finally clause would skip it).
start_close_ws(c) ==
    /\ Live(c) /\ client[c].start = "closing"
    /\ \E outcome \in CloseOutcomes :
         LET r == close_ws(client[c], outcome) IN
         IF r.exc = "none"
         THEN Put(c, [cleanup(r.client) EXCEPT !.start = "done"])
         ELSE Put(c, [r.client EXCEPT !.start = "done"])
    /\ UNCHANGED Control

\* audio_producer begins.
producer_start(c) ==
    /\ Live(c) /\ client[c].producer = "scheduled"
    /\ Put(c, producer_loop(client[c]))
    /\ UNCHANGED Control

\* The capture source of session c has not been released.
CaptureOpen(c) ==
    IF client[c].source = "mic" THEN client[c].input_stream = "open"
    ELSE client[c].arecord_process = "open"

\* The capture source delivers the next frame: it is offered to the queue.
producer_read(c) ==
    /\ Live(c) /\ client[c].producer = "read"
    /\ client[c].captured < env.frames
    /\ IF client[c].source = "mic" THEN client[c].input_stream = "open"
       ELSE client[c].arecord_process = "open"
    /\ Put(c, [client[c] EXCEPT !.captured = @ + 1, !.prod_frame = client[c].captured + 1,
                                !.producer = "put"])
    /\ UNCHANGED Control

\* The read raises (mic) or returns no data (capture process ended): the
\* producer loop ends.
producer_read_end(c) ==
    /\ Live(c) /\ client[c].producer = "read"
    /\ Put(c, [client[c] EXCEPT !.producer = "done"])
    /\ UNCHANGED Control

\* The read returns zero-length data, written as frame 0. From the capture
\* process that is the end of the stream: the loop ends. The device branch
\* has no such test: the data is offered to the queue like any other.
producer_read_empty(c) ==
    /\ Live(c) /\ client[c].producer = "read"
    /\ client[c].captured < env.frames
    /\ CaptureOpen(c)
    /\ Put(c, [client[c] EXCEPT !.captured = @ + 1, !.prod_frame = 0,
                                !.producer = IF client[c].source = "mic" THEN "put"
                                             ELSE "done"])
    /\ UNCHANGED Control

\* producer_put on a stack instead of a queue: the newest frame goes first.
producer_put_lifo(c) ==
    /\ Live(c) /\ client[c].producer = "put"
    /\ LET s == client[c] IN
       IF Len(s.audio_queue) < AUDIO_QUEUE_MAX_SIZE
       THEN Put(c, producer_loop([s EXCEPT !.audio_queue = <<s.prod_frame>> \o @]))
       ELSE Put(c, producer_loop([s EXCEPT !.put_dropped = @ \cup {s.prod_frame}]))
    /\ UNCHANGED Control

\* producer_put on an unbounded queue: the put never times out.
producer_put_unbounded(c) ==
    /\ Live(c) /\ client[c].producer = "put"
    /\ Put(c, producer_loop([client[c] EXCEPT !.audio_queue = Append(@, client[c].prod_frame)]))
    /\ UNCHANGED Control

\* wait_for(audio_queue.put(frame), 1.0): the frame is queued when there is
\* room, dropped when the queue stayed full for the whole timeout.
producer_put(c) ==
    /\ Live(c) /\ client[c].producer = "put"
    /\ LET s == client[c] IN
       IF Len(s.audio_queue) < AUDIO_QUEUE_MAX_SIZE
       THEN Put(c, producer_loop([s EXCEPT !.audio_queue = Append(@, s.prod_frame)]))
       ELSE Put(c, producer_loop([s EXCEPT !.put_dropped = @ \cup {s.prod_frame}]))
    /\ UNCHANGED Control

\* audio_consumer begins.
consumer_start(c) ==
    /\ Live(c) /\ client[c].consumer = "scheduled"
    /\ Put(c, consumer_loop(client[c]))
    /\ UNCHANGED Control

\* consumer_get taking the newest queued frame instead of the oldest.
consumer_get_newest(c) ==
    /\ Live(c) /\ client[c].consumer = "get"
    /\ LET s == client[c] IN
       IF s.audio_queue # <<>>
       THEN Put(c, [s EXCEPT !.audio_queue = SubSeq(@, 1, Len(@) - 1),
                             !.cons_frame = s.audio_queue[Len(s.audio_queue)],
                             !.consumer = "send"])
       ELSE Put(c, consumer_loop(s))
    /\ UNCHANGED Control

\* wait_for(audio_queue.get(), 1.0): a frame is taken and its send started,
\* or the queue stayed empty and the loop continues.
consumer_get(c) ==
    /\ Live(c) /\ client[c].consumer = "get"
    /\ LET s == client[c] IN
       IF s.audio_queue # <<>>
       THEN Put(c, [s EXCEPT !.audio_queue = Tail(@), !.cons_frame = Head(s.audio_queue),
                             !.consumer = "send"])
       ELSE Put(c, consumer_loop(s))
    /\ UNCHANGED Control

\* consumer_send with the send timeout handled like a closed connection:
\* the loop ends.
consumer_send_fatal(c) ==
    /\ Live(c) /\ client[c].consumer = "send"
    /\ LET s == client[c] IN
       IF s.ws = "open"
       THEN \/ Put(c, [s EXCEPT !.wire = Append(@, Outbound("input_audio_buffer.append",
                                                         s.cons_frame)),
                            !.consumer = "sleep"])
            \/ Put(c, [s EXCEPT !.send_timeouts = @ \cup {s.cons_frame},
                                !.consumer = "done"])
       ELSE Put(c, [s EXCEPT !.send_closed = @ \cup {s.cons_frame}, !.consumer = "done"])
    /\ UNCHANGED Control

\* consumer_send putting the frame back at the head of the queue after a
\* send timeout, so that the next iteration sends it again.
consumer_send_requeue(c) ==
    /\ Live(c) /\ client[c].consumer = "send"
    /\ LET s == client[c] IN
       IF s.ws = "open"
       THEN \/ Put(c, [s EXCEPT !.wire = Append(@, Outbound("input_audio_buffer.append",
                                                         s.cons_frame)),
                            !.consumer = "sleep"])
            \/ Put(c, consumer_loop([s EXCEPT !.send_timeouts = @ \cup {s.cons_frame},
                                              !.audio_queue = <<s.cons_frame>> \o @]))
       ELSE Put(c, [s EXCEPT !.send_closed = @ \cup {s.cons_frame}, !.consumer = "done"])
    /\ UNCHANGED Control

\* consumer_send that cannot run while the receiver is inside
\* save_call_data or send_notification, as if those calls blocked the event
\* loop.
consumer_send_blocked(c) ==
    /\ Live(c) /\ client[c].consumer = "send"
    /\ client[c].receiver \notin {"save", "notify"}
    /\ LET s == client[c] IN
       IF s.ws = "open"
       THEN \/ Put(c, [s EXCEPT !.wire = Append(@, Outbound("input_audio_buffer.append",
                                                         s.cons_frame)),
                            !.consumer = "sleep"])
            \/ Put(c, consumer_loop([s EXCEPT !.send_timeouts = @ \cup {s.cons_frame}]))
       ELSE Put(c, [s EXCEPT !.send_closed = @ \cup {s.cons_frame}, !.consumer = "done"])
    /\ UNCHANGED Control

\* wait_for(ws.send(append), AUDIO_SEND_TIMEOUT): sent, timed out (the frame
\* is dropped, the loop continues) or connection closed (the loop ends).
consumer_send(c) ==
    /\ Live(c) /\ client[c].consumer = "send"
    /\ LET s == client[c] IN
       IF s.ws = "open"
       THEN \/ Put(c, [s EXCEPT !.wire = Append(@, Outbound("input_audio_buffer.append",
                                                         s.cons_frame)),
                            !.consumer = "sleep"])
            \/ Put(c, consumer_loop([s EXCEPT !.send_timeouts = @ \cup {s.cons_frame}]))
       ELSE Put(c, [s EXCEPT !.send_closed = @ \cup {s.cons_frame}, !.consumer = "done"])
    /\ UNCHANGED Control

\* asyncio.sleep(0.01) returns.
consumer_sleep(c) ==
    /\ Live(c) /\ client[c].consumer = "sleep"
    /\ Put(c, consumer_loop(client[c]))
    /\ UNCHANGED Control

\* receive_messages begins: the async-for waits for a message.
receiver_start(c) ==
    /\ Live(c) /\ client[c].receiver = "scheduled"
    /\ Put(c, [client[c] EXCEPT !.receiver = "recv"])
    /\ UNCHANGED Control

\* receiver_message dispatching each message as it arrives, also while the
\* side effects of the previous one are still awaited.
receiver_message_concurrent(c) ==
    /\ Live(c) /\ client[c].receiver \in {"recv", "save", "notify"}
    /\ client[c].ws = "open"
    /\ Len(client[c].inbound) < env.msgs
    /\ \E m \in Messages : Put(c, receive_message(client[c], m))
    /\ UNCHANGED Control

\* A message arrives on the open connection and is dispatched.
receiver_message(c) ==
    /\ Live(c) /\ client[c].receiver = "recv" /\ client[c].ws = "open"
    /\ Len(client[c].inbound) < env.msgs
    /\ \E m \in Messages : Put(c, receive_message(client[c], m))
    /\ UNCHANGED Control

\* The async-for finds the connection closed: the receiver returns.
receiver_closed(c) ==
    /\ Live(c) /\ client[c].receiver = "recv" /\ client[c].ws = "closed"
    /\ Put(c, [client[c] EXCEPT !.receiver = "done"])
    /\ UNCHANGED Control

\* receiver_saved with an insert that has no time limit and never answers:
\* save_call_data does not return.
receiver_saved_unbounded(c) ==
    /\ Live(c) /\ client[c].receiver = "save"
    /\ FALSE
    /\ UNCHANGED vars

\* save_call_data returns (a result, or None after its last attempt).
receiver_saved(c) ==
    /\ Live(c) /\ client[c].receiver = "save"
    /\ \E result \in SaveResults : Put(c, save_returned(client[c], result))
    /\ UNCHANGED Control

\* send_notification returns (sent, timed out or failed).
receiver_notified(c) ==
    /\ Live(c) /\ client[c].receiver = "notify"
    /\ \E result \in NotifyResults : Put(c, notify_returned(client[c], result))
    /\ UNCHANGED Control

\* The server, or a missed keep-alive pong, closes the connection.
server_close(c) ==
    /\ Live(c) /\ client[c].ws = "open"
    /\ Put(c, [client[c] EXCEPT !.ws = "closed"])
    /\ UNCHANGED Control


(* --------------------------- control surface --------------------------- *)
\* asyncio.create_task(realtime_client.start()) registers the task's first
\* step with the event loop, which runs callbacks in the order they were
\* registered: start() reaches its first await before any handler that
\* begins later runs.
StartPending == \E c \in 1..Len(client) : client[c].start = "scheduled"

\* call_start without its except clause: an exception of the constructor
\* reaches the caller, which answers 500.
call_start_uncaught(event) ==
    /\ client_lock = "free" /\ env.requests > 0 /\ ~StartPending
    /\ env' = [env EXCEPT !.requests = @ - 1]
    /\ IF realtime_client = 0
       THEN \/ /\ client' = Append(client,
                                   RealtimeClient(APP_CONFIG, Instructions(event), event))
               /\ realtime_client' = Len(client) + 1
               /\ response' = "success"
            \/ /\ response' = "500"
               /\ UNCHANGED <<realtime_client, client>>
       ELSE /\ client' = [client EXCEPT ![realtime_client] =
                             [@ EXCEPT !.SYSTEM_INSTRUCTIONS = Instructions(event),
                                       !.phone_number = event.phone_number,
                                       !.fcm_token = event.fcm_token,
                                       !.call_id = event.call_id]]
            /\ response' = "updated"
            /\ UNCHANGED realtime_client
    /\ UNCHANGED <<client_lock, APP_CONFIG, cfg>>

\* POST /call/start.  The handler holds client_lock and never awaits inside
\* it: one atomic block.  Without an active client it constructs one and
\* schedules its start(), or the constructor raises and the except clause
\* answers "error"; otherwise it updates the active client in place.
call_start(event) ==
    /\ client_lock = "free" /\ env.requests > 0 /\ ~StartPending
    /\ env' = [env EXCEPT !.requests = @ - 1]
    /\ IF realtime_client = 0
       THEN \/ /\ client' = Append(client,
                                   RealtimeClient(APP_CONFIG, Instructions(event), event))
               /\ realtime_client' = Len(client) + 1
               /\ response' = "success"
            \/ /\ response' = "error"
               /\ UNCHANGED <<realtime_client, client>>
       ELSE /\ client' = [client EXCEPT ![realtime_client] =
                             [@ EXCEPT !.SYSTEM_INSTRUCTIONS = Instructions(event),
                                       !.phone_number = event.phone_number,
                                       !.fcm_token = event.fcm_token,
                                       !.call_id = event.call_id]]
            /\ response' = "updated"
            /\ UNCHANGED realtime_client
    /\ UNCHANGED <<client_lock, APP_CONFIG, cfg>>

\* call_end_return without the call of cleanup().
call_end_return_unreleased(s) == [s EXCEPT !.stopped = TRUE]

\* The end of call_end's critical section: cleanup(), the handle is
\* cleared, the response is returned and the lock released.
call_end_return(s) ==
    [cleanup(s) EXCEPT !.stopped = TRUE]

\* POST /call/end up to the await inside close_ws.  With no active client
\* it answers with a warning.  Otherwise it clears running and calls
\* close_ws, which suspends (holding the lock) only when self.ws is set.
call_end ==
    /\ client_lock = "free" /\ env.requests > 0 /\ ~StartPending
    /\ env' = [env EXCEPT !.requests = @ - 1]
    /\ IF realtime_client = 0
       THEN /\ response' = "warning"
            /\ UNCHANGED <<realtime_client, client_lock, client>>
       ELSE LET s == [client[realtime_client] EXCEPT !.running = FALSE] IN
            IF s.ws = None
            THEN /\ Put(realtime_client, call_end_return(s))
                 /\ realtime_client' = 0
                 /\ response' = "success"
                 /\ UNCHANGED client_lock
            ELSE /\ Put(realtime_client, s)
                 /\ client_lock' = "call_end"
                 /\ UNCHANGED <<realtime_client, response>>
    /\ UNCHANGED <<APP_CONFIG, cfg>>

\* call_end resumes when close_ws returned (ws.close() returned, raised or
\* timed out); an exception reaching call_end would be answered "error" by
\* its except clause, without cleanup and with the handle still set.
call_end_close_ws ==
    /\ client_lock = "call_end"
    /\ \E outcome \in CloseOutcomes :
         LET r == close_ws(client[realtime_client], outcome) IN
         IF r.exc = "none"
         THEN /\ Put(realtime_client, call_end_return(r.client))
              /\ realtime_client' = 0
              /\ response' = "success"
         ELSE /\ Put(realtime_client, r.client)
              /\ response' = "error"
              /\ UNCHANGED realtime_client
    /\ client_lock' = "free"
    /\ UNCHANGED <<APP_CONFIG, cfg, env>>

\* shutdown_handler up to the await inside close_ws.  The server runs it
\* when it stops: it accepts no further request and has waited for the
\* handlers in flight, so the lock is free; the handler does not take it.
\* env.shutdown is "pending" until then, "close_ws" while the handler is
\* suspended, "done" afterwards.
shutdown_handler ==
    /\ env.shutdown = "pending" /\ client_lock = "free" /\ ~StartPending
    /\ IF realtime_client = 0
       THEN /\ env' = [env EXCEPT !.requests = 0, !.shutdown = "done"]
            /\ UNCHANGED client
       ELSE LET s == [client[realtime_client] EXCEPT !.running = FALSE] IN
            IF s.ws = None
            THEN /\ Put(realtime_client, cleanup(s))
                 /\ env' = [env EXCEPT !.requests = 0, !.shutdown = "done"]
            ELSE /\ Put(realtime_client, s)
                 /\ env' = [env EXCEPT !.requests = 0, !.shutdown = "close_ws"]
    /\ UNCHANGED <<realtime_client, client_lock, APP_CONFIG, cfg, response>>

\* shutdown_handler resumes when close_ws returned and runs cleanup(); the
\* handle stays set.
shutdown_close_ws ==
    /\ env.shutdown = "close_ws"
    /\ \E outcome \in CloseOutcomes :
         LET r == close_ws(client[realtime_client], outcome) IN
         IF r.exc = "none"
         THEN Put(realtime_client, cleanup(r.client))
         ELSE Put(realtime_client, r.client)
    /\ env' = [env EXCEPT !.shutdown = "done"]
    /\ UNCHANGED <<realtime_client, client_lock, APP_CONFIG, cfg, response>>

\* GET /health: active_call tells whether the handle is set.
health_check == [status |-> "healthy", active_call |-> realtime_client # 0]

(* ---------------------------- specifications --------------------------- *)
\* The steps of start() itself.
StartStep(c) ==
    \/ start_begin(c) \/ connect_attempt(c) \/ retry_sleep(c) \/ echo_sleep(c)
    \/ arecord_sleep(c) \/ configure_sent(c) \/ gather_return(c) \/ start_close_ws(c)

\* The steps of the three tasks that need neither a captured frame nor an
\* inbound message, and the environment ending the capture or the connection.
IdleStep(c) ==
    \/ producer_start(c) \/ consumer_start(c) \/ consumer_get(c)
    \/ receiver_start(c) \/ receiver_closed(c)
    \/ producer_read_end(c) \/ server_close(c)

\* The steps that move a captured frame.
FrameStep(c) ==
    producer_read(c) \/ producer_put(c) \/ consumer_send(c) \/ consumer_sleep(c)

\* The steps that handle an inbound message.
MessageStep(c) == receiver_message(c) \/ receiver_saved(c) \/ receiver_notified(c)

\* The requests of the control surface.
ControlStep ==
    \/ \E event \in CallEvents : call_start(event)
    \/ call_end
    \/ call_end_close_ws

InitWith(retries, requests, frames, msgs) ==
    /\ realtime_client = 0
    /\ client_lock = "free"
    /\ client = <<>>
    /\ APP_CONFIG \in {"mic", "arecord"}
    /\ cfg \in {[WS_MAX_RETRIES |-> n] : n \in retries}
    /\ env = [requests |-> requests, frames |-> frames, msgs |-> msgs]
    /\ response = "none"

\* The control surface receiving MaxRequests requests, so that sessions
\* follow one another or overlap, while the capture source and the server
\* stay silent (the frame and message steps are never enabled then).
Init == InitWith({FewRetries}, MaxRequests, 0, 0)
Next == ControlStep \/ \E c \in 1..Len(client) : StartStep(c) \/ IdleStep(c)
Spec == Init /\ [][Next]_vars

\* One call (call/start, then possibly one more request), for every retry
\* budget up to MaxRetriesBound.
ConnectInit == InitWith(1..MaxRetriesBound, 2, 0, 0)
ConnectSpec == ConnectInit /\ [][Next]_vars

\* One call whose capture source delivers up to MaxFrames frames.
StreamInit == InitWith({FewRetries}, 2, MaxFrames, 0)
StreamNext == Next \/ \E c \in 1..Len(client) : FrameStep(c)
StreamSpec == StreamInit /\ [][StreamNext]_vars

\* StreamSpec with a capture source that may also return zero-length data.
EmptyReadNext == StreamNext \/ \E c \in 1..Len(client) : producer_read_empty(c)
EmptyReadSpec == StreamInit /\ [][EmptyReadNext]_vars

\* One call, started and then left alone by the control surface, that
\* receives up to MaxMsgs inbound messages.
ReceiveInit == InitWith({FewRetries}, 1, 0, MaxMsgs)
ReceiveNext ==
    \/ \E event \in CallEvents : call_start(event)
    \/ \E c \in 1..Len(client) : StartStep(c) \/ IdleStep(c) \/ MessageStep(c)
ReceiveSpec == ReceiveInit /\ [][ReceiveNext]_vars

\* One call that captures up to MaxFrames frames while it receives one
\* inbound message.
DuplexInit == InitWith({FewRetries}, 1, MaxFrames, 1)
DuplexNext == ReceiveNext \/ \E c \in 1..Len(client) : FrameStep(c)
DuplexSpec == DuplexInit /\ [][DuplexNext]_vars

\* One call that receives up to MaxMsgs inbound messages while the control
\* surface receives a second request: an updating call/start or a call/end.
UpdateInit == InitWith({FewRetries}, 2, 0, MaxMsgs)
UpdateNext == Next \/ \E c \in 1..Len(client) : MessageStep(c)
UpdateSpec == UpdateInit /\ [][UpdateNext]_vars

\* The control surface receiving up to two requests and then the server's
\* shutdown event.
ShutdownInit ==
    /\ realtime_client = 0
    /\ client_lock = "free"
    /\ client = <<>>
    /\ APP_CONFIG \in {"mic", "arecord"}
    /\ cfg = [WS_MAX_RETRIES |-> FewRetries]
    /\ env = [requests |-> 2, frames |-> 0, msgs |-> 0, shutdown |-> "pending"]
    /\ response = "none"
ShutdownNext == Next \/ shutdown_handler \/ shutdown_close_ws
ShutdownSpec == ShutdownInit /\ [][ShutdownNext]_vars

(* db.save_call_data, one invocation.  The invocation is the record
   env.call: its arguments, pos ("call" before the body runs, "insert" while
   an insert_one is awaited, "sleep" between attempts, "returned"), the loop
   variable attempt, and what was observed: the outcome of every insert_one,
   in order, and the sleeps.  response is the value returned. *)
max_retries == 3

\* What one awaited insert_one may do: return its result, run into the
\* wait_for timeout, or raise.
InsertOutcomes == {"InsertOneResult", "TimeoutError", "Exception"}

\* The score arguments: integers in and around 1..10 and values of other types
\* (bool is a subclass of int: True counts as 1, False as 0).
ScoreArgs ==
    {Scalar("int", n) : n \in {-1, 0, 1, 5, 10, 11}}
        \cup {Scalar("bool", 1), Scalar("bool", 0), Scalar("float", 6),
              Scalar("str", 0), Scalar("null", 0)}

\* valid_input without the range test on the score.
valid_input_any_score(uuid, call_id, scam_score) ==
    /\ uuid \notin {None, ""} /\ call_id \notin {None, ""}
    /\ scam_score.t \in {"int", "bool"}

\* The two tests at the head of save_call_data: both ids non-empty, and the
\* score an instance of int with 1 <= score <= 10.
valid_input(uuid, call_id, scam_score) ==
    /\ uuid \notin {None, ""} /\ call_id \notin {None, ""}
    /\ scam_score.t \in {"int", "bool"}
    /\ 1 <= scam_score.n /\ scam_score.n <= 10

DbCall(caller, uuid, call_id, scam_score) ==
    [caller |-> caller, user_uuid |-> uuid, call_id |-> call_id,
     scam_score |-> scam_score, pos |-> "call", attempt |-> 0,
     outcomes |-> <<>>, sleeps |-> <<>>, result |-> "none"]

\* save_call_data up to its first await.
save_call_data_begin(k) ==
    IF valid_input(k.user_uuid, k.call_id, k.scam_score)
    THEN [k EXCEPT !.pos = "insert"]
    ELSE [k EXCEPT !.pos = "returned", !.result = None]

\* after_insert with the last failure raised to the caller instead of
\* answered with None.
after_insert_raising(k, outcome) ==
    LET k1 == [k EXCEPT !.outcomes = Append(@, outcome)] IN
    IF outcome = "InsertOneResult"
    THEN [k1 EXCEPT !.pos = "returned", !.result = outcome]
    ELSE IF k.attempt < max_retries - 1
         THEN [k1 EXCEPT !.pos = "sleep"]
         ELSE [k1 EXCEPT !.pos = "returned", !.result = outcome]

\* The awaited insert_one of attempt k.attempt ends with outcome: the result
\* is returned; after a timeout or an exception the function sleeps before
\* the next attempt, or returns None when this was the last.
after_insert(k, outcome) ==
    LET k1 == [k EXCEPT !.outcomes = Append(@, outcome)] IN
    IF outcome = "InsertOneResult"
    THEN [k1 EXCEPT !.pos = "returned", !.result = outcome]
    ELSE IF k.attempt < max_retries - 1
         THEN [k1 EXCEPT !.pos = "sleep"]
         ELSE [k1 EXCEPT !.pos = "returned", !.result = None]

\* asyncio.sleep(2 ** attempt) returns: the for loop starts the next attempt.
after_sleep(k) ==
    [k EXCEPT !.sleeps = Append(@, 2 ^ k.attempt), !.attempt = @ + 1, !.pos = "insert"]

DbStep(k2) ==
    /\ env' = [env EXCEPT !.call = k2]
    /\ response' = k2.result
    /\ UNCHANGED <<realtime_client, client_lock, client, APP_CONFIG, cfg>>

db_begin == env.call.pos = "call" /\ DbStep(save_call_data_begin(env.call))
db_insert ==
    /\ env.call.pos = "insert"
    /\ \E outcome \in InsertOutcomes : DbStep(after_insert(env.call, outcome))
db_sleep == env.call.pos = "sleep" /\ DbStep(after_sleep(env.call))

\* One invocation of save_call_data: by the receiver, with the module's
\* user_uuid, the session's call_id or "unknown" and an int score, or by any
\* caller with any arguments.
DbInit ==
    /\ realtime_client = 0 /\ client_lock = "free" /\ client = <<>>
    /\ APP_CONFIG \in {"mic", "arecord"}
    /\ cfg = [WS_MAX_RETRIES |-> WS_MAX_RETRIES]
    /\ \E k \in {DbCall("receiver", user_uuid, CallIdArg(id), sc) :
                    id \in {None, "", "call-1"},
                    sc \in {x \in ScoreArgs : x.t = "int"}}
                \cup {DbCall("other", u, id, sc) :
                        u \in {"", user_uuid}, id \in {"", "call-1"}, sc \in ScoreArgs} :
          env = [requests |-> 0, frames |-> 0, msgs |-> 0, call |-> k]
    /\ response = "none"
DbNext == db_begin \/ db_insert \/ db_sleep
DbSpec == DbInit /\ [][DbNext]_vars
FairDbSpec == DbSpec /\ WF_vars(DbNext)

\* UpdateSpec with a single inbound message.
UpdateOneInit == InitWith({FewRetries}, 2, 0, 1)
UpdateOneSpec == UpdateOneInit /\ [][UpdateNext]_vars

\* get_scam_category applied once to a score drawn from around 1..10; the
\* score is kept in env, the category it is given in response.
Scores == (1 - ScoreSpan)..(10 + ScoreSpan)
CategoryInit ==
    /\ realtime_client = 0 /\ client_lock = "free" /\ client = <<>>
    /\ APP_CONFIG \in {"mic", "arecord"}
    /\ cfg = [WS_MAX_RETRIES |-> WS_MAX_RETRIES]
    /\ env \in {[requests |-> 0, frames |-> 0, msgs |-> 0, score |-> n] : n \in Scores}
    /\ response = "none"
category_lookup ==
    /\ response = "none"
    /\ response' = get_scam_category(env.score).category
    /\ UNCHANGED <<realtime_client, client_lock, client, APP_CONFIG, cfg, env>>
CategorySpec == CategoryInit /\ [][category_lookup]_vars

\* The scheduling the event loop guarantees: a task that can run does run,
\* a timeout expires, a close returns.  Nothing is assumed of the
\* environment: the server need not send or close, the capture need not end;
\* but a read of a capture source that cleanup() released does end.
ProducerFair(c) ==
    \/ producer_start(c) \/ producer_read(c) \/ producer_put(c)
    \/ producer_read_end(c) /\ ~CaptureOpen(c)
ConsumerFair(c) ==
    consumer_start(c) \/ consumer_get(c) \/ consumer_send(c) \/ consumer_sleep(c)
ReceiverFair(c) == receiver_start(c) \/ receiver_closed(c)
Fairness ==
    /\ WF_vars(call_end_close_ws)
    /\ \A c \in 1..MaxRequests :
         /\ WF_vars(StartStep(c)) /\ WF_vars(ProducerFair(c))
         /\ WF_vars(ConsumerFair(c)) /\ WF_vars(ReceiverFair(c))
FairStreamSpec == StreamSpec /\ Fairness

\* One call that receives one inbound message, with every task scheduled
\* fairly and with the collaborators' time limits: wait_for bounds each
\* insert attempt of save_call_data, which makes three of them, and the
\* messaging.send of send_notification, so both calls return.
CallbackFair(c) == receiver_saved(c) \/ receiver_notified(c)
FairReceiveInit == InitWith({FewRetries}, 1, 0, 1)
FairReceiveSpec ==
    /\ FairReceiveInit /\ [][ReceiveNext]_vars
    /\ \A c \in 1..MaxRequests :
         /\ WF_vars(StartStep(c)) /\ WF_vars(ProducerFair(c))
         /\ WF_vars(ConsumerFair(c)) /\ WF_vars(ReceiverFair(c))
         /\ WF_vars(CallbackFair(c))

(* ------------------------------- claims -------------------------------- *)
Exists(c) == c <= Len(client)
TaskOver(pc) == pc \in {"none", "done"}

\* No task of session c is running: start() returned and so did the
\* producer, the consumer and the receiver (or they were never started).
Quiet(c) ==
    /\ client[c].start = "done"
    /\ TaskOver(client[c].producer) /\ TaskOver(client[c].consumer)
    /\ TaskOver(client[c].receiver)

\* C1: a call/end issued at any point of a session's life returns, and
\* after it returned eventually none of the session's tasks (start(),
\* producer, consumer, receiver) is running.
C1_StopQuiesces ==
    /\ (client_lock = "call_end") ~> (client_lock = "free")
    /\ \A c \in 1..MaxRequests :
         (Exists(c) /\ client[c].stopped) ~> (Exists(c) /\ Quiet(c))

\* A stop of session c was requested from outside.
StopRequested(c) ==
    client[c].stopped \/ (client_lock = "call_end" /\ realtime_client = c)

\* Session c is torn down: running cleared, the three tasks returned, the
\* connection closed, the capture source and subprocess released.
TornDown(c) ==
    /\ ~client[c].running
    /\ client[c].producer = "done" /\ client[c].consumer = "done"
    /\ client[c].receiver = "done"
    /\ client[c].ws # "open"
    /\ client[c].input_stream # "open" /\ client[c].arecord_process # "open"

OneTaskExited(c) ==
    "done" \in {client[c].producer, client[c].consumer, client[c].receiver}

\* C2: the three tasks are fate-sharing: once one of them has exited, and
\* unless a stop is requested from outside, the session is eventually torn
\* down (running cleared, the other two exited, connection closed, capture
\* released).
C2_FateSharing ==
    \A c \in 1..MaxRequests :
        (Exists(c) /\ OneTaskExited(c))
            ~> (Exists(c) /\ (TornDown(c) \/ StopRequested(c)))

\* Session c still has a start() task, a streaming task or an open connection.
SessionAlive(c) ==
    \/ client[c].start # "done"
    \/ ~TaskOver(client[c].producer) \/ ~TaskOver(client[c].consumer)
    \/ ~TaskOver(client[c].receiver)
    \/ client[c].ws = "open"

\* C3: at most one session is alive at any time, whatever the interleaving
\* of call/start and call/end; and a call/start that finds an active session
\* constructs no client and starts no task: it only updates that session.
C3_SingleSession ==
    /\ [](Cardinality({c \in 1..Len(client) : SessionAlive(c)}) <= 1)
    /\ [][/\ Len(client') > Len(client) => realtime_client = 0
          /\ response' = "updated" /\ env'.requests < env.requests =>
                /\ realtime_client' = realtime_client /\ Len(client') = Len(client)
                /\ \A c \in 1..Len(client) : client'[c].start = client[c].start]_vars

(* Frames of session c. *)
Appends(c) ==
    SelectSeq(client[c].wire, LAMBDA m : m.type = "input_audio_buffer.append")
FramesSent(c) == [i \in 1..Len(Appends(c)) |-> Appends(c)[i].audio]

\* The captured frames that are sent or still on their way, oldest first:
\* on the wire, in the consumer's hands, in the queue, in the producer's hands.
FramesInOrder(c) ==
    FramesSent(c)
        \o (IF client[c].consumer = "send" THEN <<client[c].cons_frame>> ELSE <<>>)
        \o client[c].audio_queue
        \o (IF client[c].producer = "put" THEN <<client[c].prod_frame>> ELSE <<>>)

NoFrameDropped(c) ==
    /\ client[c].put_dropped = {} /\ client[c].send_timeouts = {}
    /\ client[c].send_closed = {}

\* C4: as long as no put timed out and no send failed, the frames sent,
\* followed by those still in the pipeline, are exactly the captured frames
\* 1..captured in capture order: FIFO, none lost, none duplicated.
C4_FifoNoLoss ==
    \A c \in 1..Len(client) :
        NoFrameDropped(c) => FramesInOrder(c) = [i \in 1..client[c].captured |-> i]

\* Every captured frame went through the pipeline and onto the wire.
C4_Witness ==
    \E c \in 1..Len(client) :
        /\ NoFrameDropped(c) /\ client[c].captured = MaxFrames
        /\ FramesSent(c) = [i \in 1..MaxFrames |-> i]

\* C5: the queue never holds more than AUDIO_QUEUE_MAX_SIZE frames; a
\* producer waiting in put can always go on; and a step that drops a frame
\* on a put timeout drops exactly the frame being put, leaves the queue as it
\* was, at capacity, and takes the producer back to its loop condition.
C5_BoundedQueue ==
    /\ [](\A c \in 1..Len(client) :
            /\ Len(client[c].audio_queue) <= AUDIO_QUEUE_MAX_SIZE
            /\ client[c].producer = "put" => ENABLED producer_put(c))
    /\ [][\A c \in 1..Len(client) :
            client'[c].put_dropped # client[c].put_dropped =>
                /\ client'[c].put_dropped
                      = client[c].put_dropped \cup {client[c].prod_frame}
                /\ client'[c].audio_queue = client[c].audio_queue
                /\ Len(client[c].audio_queue) = AUDIO_QUEUE_MAX_SIZE
                /\ client'[c].producer = IF client[c].running THEN "read" ELSE "done"
         ]_vars

\* A frame was dropped on a full queue and the producer is reading again.
C5_Witness ==
    \E c \in 1..Len(client) :
        /\ client[c].put_dropped # {} /\ client[c].producer = "read"
        /\ Len(client[c].audio_queue) = AUDIO_QUEUE_MAX_SIZE

(* Inbound events of session c. *)
Calls(log, n) == {i \in 1..Len(log) : log[i].evt = n}
IsTranscriptDone(m) == m.k = "object" /\ m.type = "response.audio_transcript.done"

\* The transcript of m is a JSON object with "response" and an integer "score".
IsIntAssessment(m) ==
    /\ IsTranscriptDone(m) /\ m.transcript.k = "json"
    /\ m.transcript.v.t = "dict" /\ Keys \subseteq m.transcript.v.has
    /\ m.transcript.v.score.t = "int"

\* The receiver is still in its loop after event n, unless the connection
\* was closed since or a later event ended it.
StillReceiving(c, n) ==
    /\ client[c].handled >= n
    /\ n = Len(client[c].inbound) =>
          \/ client[c].receiver = "recv"
          \/ client[c].receiver = "done" /\ client[c].ws = "closed"

\* C6: for every handled AssistantTranscriptDone event carrying an
\* assessment with integer score s, save_call_data was called exactly once
\* with s, and send_notification exactly once with s when
\* s >= NOTIFICATION_THRESHOLD and not at all when s < NOTIFICATION_THRESHOLD.
C6_AssessmentSideEffects ==
    \A c \in 1..Len(client) : \A n \in 1..client[c].handled :
        LET m == client[c].inbound[n]
            s == m.transcript.v.score.n IN
        IsIntAssessment(m) =>
            /\ Cardinality(Calls(client[c].saved, n)) = 1
            /\ \A i \in Calls(client[c].saved, n) : client[c].saved[i].scam_score = s
            /\ Cardinality(Calls(client[c].notified, n))
                  = IF s >= NOTIFICATION_THRESHOLD THEN 1 ELSE 0
            /\ \A i \in Calls(client[c].notified, n) :
                  client[c].notified[i].scam_score = s

\* An assessment exactly at the threshold was handled and notified.
C6_Witness ==
    \E c \in 1..Len(client) : \E n \in 1..client[c].handled :
        /\ IsIntAssessment(client[c].inbound[n])
        /\ client[c].inbound[n].transcript.v.score.n = NOTIFICATION_THRESHOLD
        /\ Calls(client[c].notified, n) # {}

IsProseTranscript(m) == IsTranscriptDone(m) /\ m.transcript.k = "prose"

\* C7: an AssistantTranscriptDone event whose text is not JSON causes no
\* save_call_data and no send_notification call, and the receiver stays in
\* its loop for the events that follow.
C7_NotJsonTranscript ==
    \A c \in 1..Len(client) : \A n \in 1..Len(client[c].inbound) :
        IsProseTranscript(client[c].inbound[n]) =>
            /\ Calls(client[c].saved, n) = {} /\ Calls(client[c].notified, n) = {}
            /\ StillReceiving(c, n)

\* A prose transcript was followed by an assessment that was saved.
C7_Witness ==
    \E c \in 1..Len(client) :
        /\ Len(client[c].inbound) >= 2
        /\ IsProseTranscript(client[c].inbound[1])
        /\ Calls(client[c].saved, 2) # {}

\* C8: a malformed websocket message (not JSON, JSON that is no object, or
\* an object without a type) has no side effect and the receive loop goes on
\* with the next message.
C8_MalformedMessage ==
    \A c \in 1..Len(client) : \A n \in 1..Len(client[c].inbound) :
        LET m == client[c].inbound[n] IN
        (m.k # "object" \/ m.type = "missing") =>
            /\ Calls(client[c].saved, n) = {} /\ Calls(client[c].notified, n) = {}
            /\ StillReceiving(c, n)

\* The transcript of m is valid JSON without the assessment shape: not an
\* object; an object missing "response" or "score"; or a score that is
\* null, a list or a non-numeric string.
IsShapelessTranscript(m) ==
    /\ IsTranscriptDone(m) /\ m.transcript.k = "json"
    /\ \/ m.transcript.v.t # "dict"
       \/ ~(Keys \subseteq m.transcript.v.has)
       \/ m.transcript.v.score.t \in {"null", "list", "str"}

\* C9: an AssistantTranscriptDone event whose text is valid JSON without
\* the assessment shape is "no assessment this turn": no save_call_data, no
\* send_notification, and the receive loop keeps running.
C9_ShapelessTranscript ==
    \A c \in 1..Len(client) : \A n \in 1..Len(client[c].inbound) :
        IsShapelessTranscript(client[c].inbound[n]) =>
            /\ Calls(client[c].saved, n) = {} /\ Calls(client[c].notified, n) = {}
            /\ StillReceiving(c, n)

\* C10: connect_websocket makes attempts until the first success and never
\* more than N = WS_MAX_RETRIES: success at attempt k means k attempts and
\* k-1 delays; failure means N attempts and N-1 delays (none after the
\* last); delay number i (0-based) is min(base * 2^i, max), so the delays
\* are non-decreasing and never above the maximum.
C10_ConnectRetries ==
    \A c \in 1..Len(client) :
        LET s == client[c]
            N == cfg.WS_MAX_RETRIES IN
        /\ s.attempts <= N
        /\ s.connect_result = "pending" => s.attempts = Len(s.delays) /\ s.ws = None
        /\ s.connect_result = "True" => s.attempts = Len(s.delays) + 1 /\ s.ws # None
        /\ s.connect_result = "False" =>
              s.attempts = N /\ Len(s.delays) = N - 1 /\ s.ws = None
        /\ \A i \in 1..Len(s.delays) :
              /\ s.delays[i] = IF WS_RETRY_BASE_DELAY * 2 ^ (i - 1) < WS_RETRY_MAX_DELAY
                               THEN WS_RETRY_BASE_DELAY * 2 ^ (i - 1)
                               ELSE WS_RETRY_MAX_DELAY
              /\ s.delays[i] <= WS_RETRY_MAX_DELAY
              /\ i > 1 => s.delays[i - 1] <= s.delays[i]

\* Every attempt failed with a budget large enough for the cap to apply.
C10_Witness ==
    \E c \in 1..Len(client) :
        /\ client[c].connect_result = "False"
        /\ client[c].attempts > WS_MAX_RETRIES
        /\ client[c].delays[Len(client[c].delays)] = WS_RETRY_MAX_DELAY

\* C11: every persistence and notification call made for an event carries
\* the phone number, token and call id the session had when that event was
\* dispatched: the updated ones for an event dispatched after a call/start
\* update, the earlier ones for an event dispatched before it.
C11_UpdateTakesEffect ==
    \A c \in 1..Len(client) :
        /\ \A i \in 1..Len(client[c].saved) :
              LET call == client[c].saved[i]
                  at == client[c].dispatched[call.evt] IN
              /\ call.phone_number = at.phone_number
              /\ call.call_id = IF at.call_id \in {None, ""} THEN "unknown" ELSE at.call_id
        /\ \A i \in 1..Len(client[c].notified) :
              LET call == client[c].notified[i]
                  at == client[c].dispatched[call.evt] IN
              call.phone_number = at.phone_number /\ call.token = at.fcm_token

(* What session c sent on its connection. *)
Configures(c) == SelectSeq(client[c].wire, LAMBDA m : m.type = "session.update")
TasksStarted(c) ==
    client[c].producer # "none" \/ client[c].consumer # "none"
        \/ client[c].receiver # "none"

\* C12: a session sends session.update at most once on its connection, and
\* it is the first message sent; once the three tasks have been started or
\* an input_audio_buffer.append has been sent, session.update has been sent
\* exactly once.
C12_ConfigureFirst ==
    \A c \in 1..Len(client) :
        /\ Len(Configures(c)) <= 1
        /\ client[c].wire # <<>> => client[c].wire[1].type = "session.update"
        /\ TasksStarted(c) \/ Appends(c) # <<>> => Len(Configures(c)) = 1

\* session.update was sent, then two frames.
C12_Witness ==
    \E c \in 1..Len(client) :
        /\ Len(client[c].wire) >= 3
        /\ client[c].wire[1].type = "session.update"
        /\ client[c].wire[3].type = "input_audio_buffer.append"

\* C13: once the setup of session c has failed (the capture or output
\* stream could not be opened, the capture process did not start, or
\* session.update could not be sent), start() is in or past its finally
\* clause, running is false, none of the three tasks was or is started, no
\* frame was sent, and when start() has returned the connection is closed
\* and the capture released.
C13_SetupErrorFatal ==
    \A c \in 1..Len(client) :
        client[c].setup_error =>
            /\ client[c].start \in {"closing", "done"}
            /\ ~client[c].running
            /\ ~TasksStarted(c)
            /\ Appends(c) = <<>>
            /\ client[c].ws # None
            /\ client[c].start = "done" =>
                  /\ client[c].ws = "closed"
                  /\ client[c].input_stream # "open"
                  /\ client[c].arecord_process # "open"

\* A setup failed after the capture had been opened, and start() returned.
C13_Witness ==
    \E c \in 1..Len(client) :
        /\ client[c].setup_error /\ client[c].start = "done"
        /\ ~client[c].stopped
        /\ "closed" \in {client[c].input_stream, client[c].arecord_process}

\* C14: a session whose connect_websocket used up its attempts has made
\* exactly WS_MAX_RETRIES of them, start() has returned, no stream or capture
\* process was ever opened and no task started; once connect_websocket has
\* returned, the session makes no further attempt; and a newly constructed
\* session has made no attempt yet.
C14_ConnectFailureFatal ==
    /\ [](\A c \in 1..Len(client) :
            client[c].connect_result = "False" =>
                /\ client[c].attempts = cfg.WS_MAX_RETRIES
                /\ client[c].start = "done" /\ client[c].ws = None
                /\ client[c].input_stream = None /\ client[c].output_stream = None
                /\ client[c].arecord_process = None
                /\ ~TasksStarted(c))
    /\ [][/\ \A c \in 1..Len(client) :
                client[c].connect_result # "pending" =>
                    /\ client'[c].attempts = client[c].attempts
                    /\ client'[c].connect_result = client[c].connect_result
          /\ Len(client') > Len(client) =>
                /\ client'[Len(client')].attempts = 0
                /\ client'[Len(client')].attempt = 0
                /\ client'[Len(client')].connect_result = "pending"]_vars

\* A session failed to connect, and the session created after it made its
\* own WS_MAX_RETRIES attempts.
C14_Witness ==
    /\ Len(client) = 2
    /\ client[1].connect_result = "False"
    /\ client[2].attempts = cfg.WS_MAX_RETRIES

\* start() of the session the handle refers to has returned without any
\* call/end: the session ended on its own (connection attempts used up, setup
\* error, or its three tasks returned).
EndedInternally ==
    /\ realtime_client # 0 /\ client_lock = "free"
    /\ client[realtime_client].start = "done"

\* C15: once the session has ended on its own, /health reports no active
\* call, the next call/start constructs a fresh session (or fails to) and
\* the next call/end answers with the "no active call" warning.
C15_DeadSessionNotActive ==
    /\ [](EndedInternally => ~health_check.active_call)
    /\ [][EndedInternally /\ env'.requests < env.requests =>
             \/ Len(client') > Len(client)
             \/ response' = "error" /\ client' = client
             \/ response' = "warning" /\ client' = client]_vars

\* C16: get_scam_category gives 'Not a Scam' to 1..3, 'Possible Scam' to
\* 4..7, 'Definitely Scam' to 8..10 and 'Unknown' to every score outside
\* 1..10.
C16_CategoryOfScore ==
    response # "none" =>
        response = CASE env.score \in 1..3 -> "Not a Scam"
                     [] env.score \in 4..7 -> "Possible Scam"
                     [] env.score \in 8..10 -> "Definitely Scam"
                     [] OTHER -> "Unknown"

\* The status a handler's response may carry.
Statuses == {"success", "updated", "warning", "error"}

\* C17: every call/start and call/end request is answered with a status
\* and leaves client_lock free: the handler either returns at once, or it is
\* call/end suspended in close_ws while holding the lock, which can always
\* resume and then returns a status and releases the lock.
C17_HandlersReturn ==
    /\ [](client_lock = "call_end" => ENABLED call_end_close_ws)
    /\ [][/\ env'.requests < env.requests =>
                \/ client_lock' = "free" /\ response' \in Statuses
                \/ client_lock' = "call_end"
          /\ client_lock = "call_end" /\ client_lock' # client_lock =>
                client_lock' = "free" /\ response' \in Statuses]_vars

\* The constructor of RealtimeClient raised: call/start answered "error",
\* no session exists and the lock is free.
C17_Witness ==
    response = "error" /\ realtime_client = 0 /\ client_lock = "free"

\* C19: close_ws returns normally however the close ends, so its caller
\* goes on with the statement after it: start() resumed from close_ws has
\* run cleanup() when it returns, and call/end resumed from close_ws runs
\* cleanup(), clears the handle and answers "success".
C19_CloseNeverRaises ==
    [][/\ \A c \in 1..Len(client) :
            client[c].start = "closing" /\ client'[c].start # "closing" =>
                /\ client'[c].start = "done" /\ client'[c].ws = "closed"
                /\ client'[c].input_stream # "open"
                /\ client'[c].output_stream # "open"
                /\ client'[c].arecord_process # "open"
       /\ client_lock = "call_end" /\ client_lock' # "call_end" =>
            /\ response' = "success" /\ realtime_client' = 0
            /\ client'[realtime_client].ws = "closed"
            /\ client'[realtime_client].stopped]_vars

\* close_ws ran twice on one session that had connected: in call/end and in
\* the finally clause of start().
C19_Witness ==
    \E c \in 1..Len(client) :
        /\ client[c].stopped /\ client[c].connect_result = "True"
        /\ client[c].start = "done" /\ client[c].ws = "closed"
        /\ response = "success"

\* C18: the step in which call/end clears the handle answers "success" and
\* leaves the session with running false, no open connection and its
\* capture and output released, also when start() had already returned; a
\* call/end that finds the handle empty answers with the warning and changes
\* nothing; and a call/end suspended in close_ws can always resume.
C18_StopIdempotent ==
    /\ [](client_lock = "call_end" =>
            realtime_client # 0 /\ ENABLED call_end_close_ws)
    /\ [][/\ realtime_client # 0 /\ realtime_client' = 0 =>
                /\ response' = "success" /\ client_lock' = "free"
                /\ ~client'[realtime_client].running
                /\ client'[realtime_client].ws # "open"
                /\ client'[realtime_client].input_stream # "open"
                /\ client'[realtime_client].output_stream # "open"
                /\ client'[realtime_client].arecord_process # "open"
          /\ call_end /\ realtime_client = 0 =>
                /\ response' = "warning"
                /\ UNCHANGED <<client, realtime_client, client_lock>>]_vars

\* A session that had connected was ended by call/end, its start() has
\* returned, and a further call/end was answered with the warning.
C18_Witness ==
    /\ realtime_client = 0 /\ response = "warning" /\ env.requests = 0
    /\ \E c \in 1..Len(client) :
          /\ client[c].stopped /\ client[c].start = "done"
          /\ ~client[c].running /\ client[c].ws = "closed"

\* C20: the receiver returns once it finds the connection closed, and it
\* takes an inbound event from the connection only while running is true.
C20_ReceiverObeysRunning ==
    /\ [](\A c \in 1..Len(client) :
            client[c].receiver = "recv" /\ client[c].ws = "closed" =>
                ENABLED receiver_closed(c))
    /\ [][\A c \in 1..Len(client) :
            Len(client'[c].inbound) > Len(client[c].inbound) => client[c].running]_vars

\* C21: a session for which call/end has returned sends no further frame,
\* starts no further save_call_data or send_notification call, and opens no
\* connection and no capture process.
C21_NothingAfterStop ==
    [][\A c \in 1..Len(client) :
          client[c].stopped =>
              /\ Len(Appends(c)') = Len(Appends(c))
              /\ client'[c].saved = client[c].saved
              /\ client'[c].notified = client[c].notified
              /\ client'[c].ws = "open" => client[c].ws = "open"
              /\ client'[c].arecord_process = "open" =>
                    client[c].arecord_process = "open"]_vars

\* C22: a put that times out on a full queue, a get that times out on an
\* empty queue and a send that times out change neither running nor the
\* connection nor the position of start(), and the task that met the timeout
\* is at the head of its loop again; it leaves the loop there only because
\* running is false.
C22_TimeoutsAreTransient ==
    [][\A c \in 1..Len(client) :
          LET s == client[c]
              t == client'[c]
              SessionKept == /\ t.running = s.running
                             /\ t.ws = s.ws
                             /\ t.start = s.start
          IN  /\ t.put_dropped # s.put_dropped =>
                    /\ SessionKept
                    /\ t.consumer = s.consumer /\ t.receiver = s.receiver
                    /\ t.producer = IF s.running THEN "read" ELSE "done"
              /\ (s.consumer = "get" /\ s.audio_queue = <<>> /\ t.consumer # "get") =>
                    /\ ~s.running
                    /\ t.consumer = "done"
                    /\ SessionKept
              /\ t.send_timeouts # s.send_timeouts =>
                    /\ SessionKept
                    /\ t.producer = s.producer /\ t.receiver = s.receiver
                    /\ t.consumer = IF s.running THEN "get" ELSE "done"]_vars

\* C22: all three timeouts struck while the session runs: a frame was dropped
\* at the full queue, another at the send, the consumer waits at the empty
\* queue, and every task is still in its loop.
C22_Witness ==
    \E c \in 1..Len(client) :
        /\ client[c].put_dropped # {}
        /\ client[c].send_timeouts # {}
        /\ client[c].running /\ client[c].ws = "open" /\ client[c].start = "gather"
        /\ client[c].producer = "read"
        /\ client[c].consumer = "get" /\ client[c].audio_queue = <<>>

\* C23: in both capture modes a read that returns data is offered to the
\* queue, and a read that returns zero-length data (frame 0) ends the producer
\* loop and leaves the queue as it was; zero-length data is never queued or
\* sent.
C23_EmptyReadEndsProducer ==
    [][\A c \in 1..Len(client) :
          LET s == client[c]
              t == client'[c]
          IN  /\ (s.producer = "read" /\ t.captured = s.captured + 1) =>
                    IF t.prod_frame # 0
                    THEN t.producer = "put"
                    ELSE t.producer = "done" /\ t.audio_queue = s.audio_queue
              /\ \A i \in 1..Len(FramesInOrder(c)') : FramesInOrder(c)'[i] # 0]_vars

\* C24: a send that finds the connection closed ends the consumer loop. A
\* send that times out does not: the consumer is at its next get (unless
\* running is false), the queue and the wire are as they were, and a frame
\* whose send timed out is nowhere in the pipeline afterwards: not sent, not
\* queued, not held by the consumer.
C24_SendTimeoutDropsFrame ==
    [][\A c \in 1..Len(client) :
          LET s == client[c]
              t == client'[c]
          IN  /\ t.send_closed # s.send_closed => t.consumer = "done"
              /\ t.send_timeouts # s.send_timeouts =>
                    /\ t.consumer = IF s.running THEN "get" ELSE "done"
                    /\ t.audio_queue = s.audio_queue
                    /\ t.wire = s.wire
              /\ \A f \in t.send_timeouts :
                    \A i \in 1..Len(FramesInOrder(c)') : FramesInOrder(c)'[i] # f]_vars

\* C24: the send of frame 1 timed out and frame 2 was sent after it.
C24_Witness ==
    \E c \in 1..Len(client) :
        /\ 1 \in client[c].send_timeouts
        /\ FramesSent(c) = <<2>>
        /\ client[c].consumer \in {"get", "sleep"}

\* An event object of any kind but AssistantTranscriptDone:
\* InputTranscriptionCompleted, AudioDelta, Error, an unknown type or none.
IsOtherEvent(m) == m.k = "object" /\ m.type # "response.audio_transcript.done"

\* C25: receiving an event of a kind other than AssistantTranscriptDone
\* starts no save_call_data and no send_notification call, leaves running,
\* the connection and the output stream as they were, and the receiver is
\* back at the head of its loop; every save_call_data and send_notification
\* call was caused by an AssistantTranscriptDone event.
C25_OtherEventsInert ==
    [][\A c \in 1..Len(client) :
          LET s == client[c]
              t == client'[c]
          IN  /\ (Len(t.inbound) > Len(s.inbound) /\ IsOtherEvent(t.inbound[Len(t.inbound)])) =>
                    /\ t.saved = s.saved /\ t.notified = s.notified
                    /\ t.running = s.running /\ t.ws = s.ws
                    /\ t.output_stream = s.output_stream /\ t.wire = s.wire
                    /\ t.receiver = "recv" /\ t.handled = Len(t.inbound)
              /\ \A i \in 1..Len(t.saved) : IsTranscriptDone(t.inbound[t.saved[i].evt])
              /\ \A i \in 1..Len(t.notified) :
                    IsTranscriptDone(t.inbound[t.notified[i].evt])]_vars

\* C25: an Error event was received, and the assessment that followed it was
\* saved and notified.
C25_Witness ==
    \E c \in 1..Len(client) :
        /\ Len(client[c].inbound) = 2
        /\ client[c].inbound[1].k = "object" /\ client[c].inbound[1].type = "error"
        /\ Calls(client[c].saved, 1) = {} /\ Calls(client[c].saved, 2) # {}
        /\ Calls(client[c].notified, 2) # {}

\* C26: when save_call_data or send_notification returns to the receiver,
\* whatever the result, and when either returns at once (score rejected, no
\* token), running, the connection, start(), producer, consumer and queue are
\* as they were and the receiver is in its next call or back at the head of
\* its loop; a save that returned, failed or not, and a save that rejected a
\* score at or above the threshold is followed by the send_notification call.
C26_CollaboratorFailureContained ==
    [][\A c \in 1..Len(client) :
          LET s == client[c]
              t == client'[c]
              Received == Len(t.inbound) > Len(s.inbound)
              Notifies == /\ Len(t.notified) = Len(s.notified) + 1
                          /\ t.notified[Len(t.notified)].evt = Len(t.inbound)
                          /\ t.receiver = IF s.fcm_token \in {None, ""} THEN "recv"
                                          ELSE "notify"
          IN  /\ ((s.receiver \in {"save", "notify"} /\ t.receiver # s.receiver)
                      \/ (Received /\ IsIntAssessment(t.inbound[Len(t.inbound)]))) =>
                    /\ t.running = s.running /\ t.ws = s.ws /\ t.start = s.start
                    /\ t.producer = s.producer /\ t.consumer = s.consumer
                    /\ t.audio_queue = s.audio_queue
                    /\ t.receiver \in {"save", "notify", "recv"}
              /\ (s.receiver = "save" /\ t.receiver # "save") =>
                    IF s.recv_score >= NOTIFICATION_THRESHOLD THEN Notifies
                    ELSE t.receiver = "recv" /\ t.notified = s.notified
              /\ (Received /\ IsIntAssessment(t.inbound[Len(t.inbound)])
                      /\ t.receiver # "save") =>
                    IF t.recv_score >= NOTIFICATION_THRESHOLD THEN Notifies
                    ELSE t.receiver = "recv" /\ t.notified = s.notified
              /\ (s.receiver = "notify" /\ t.receiver # "notify") =>
                    t.receiver = "recv" /\ t.handled = Len(t.inbound)]_vars

\* C26: save_call_data rejected the score 11 of the first assessment, which
\* was notified all the same; the second assessment went through a save and
\* a notification that returned, and the session still runs.
C26_Witness ==
    \E c \in 1..Len(client) :
        /\ client[c].handled = 2
        /\ IsIntAssessment(client[c].inbound[1])
        /\ client[c].inbound[1].transcript.v.score.n = 11
        /\ Calls(client[c].notified, 1) # {} /\ Calls(client[c].notified, 2) # {}
        /\ client[c].fcm_token = "tok-1"
        /\ client[c].running /\ client[c].ws = "open" /\ client[c].receiver = "recv"
        /\ client[c].producer = "read" /\ client[c].consumer = "get"

\* C27: a receiver waiting inside save_call_data or send_notification is
\* eventually out of that call, and eventually back at the head of its loop,
\* where it takes the next inbound event.
C27_CallbacksReturn ==
    \A c \in 1..MaxRequests :
        LET AtLoopHead == /\ Exists(c) /\ client[c].receiver = "recv"
                          /\ client[c].handled = Len(client[c].inbound)
        IN  /\ (Exists(c) /\ client[c].receiver = "save")
                  ~> (Exists(c) /\ client[c].receiver # "save")
            /\ (Exists(c) /\ client[c].receiver = "notify") ~> AtLoopHead
            /\ (Exists(c) /\ client[c].receiver \in {"save", "notify"}) ~> AtLoopHead

\* C27: an assessment went through a save and a notification, both returned,
\* and the receiver waits for the next event.
C27_Witness ==
    \E c \in 1..Len(client) :
        /\ client[c].handled = 1 /\ client[c].receiver = "recv"
        /\ Calls(client[c].saved, 1) # {} /\ Calls(client[c].notified, 1) # {}
        /\ client[c].inbound[1].transcript.v.score.n = 6
        /\ client[c].fcm_token = "tok-1"

\* C28: while the receiver waits inside save_call_data or send_notification,
\* every step of the audio path that is due can be taken, and the receiver is
\* still waiting after it: the producer's read delivers a frame, its put
\* queues the frame when there is room, the consumer's get takes the oldest
\* queued frame, its send puts the frame on an open connection.
C28_AudioPathNotBlocked ==
    \A c \in 1..Len(client) :
        LET s == client[c] IN
        s.receiver \in {"save", "notify"} =>
            /\ (s.producer = "read" /\ s.captured < env.frames /\ CaptureOpen(c)) =>
                  ENABLED (producer_read(c) /\ client'[c].producer = "put"
                              /\ client'[c].receiver = s.receiver)
            /\ (s.producer = "put" /\ Len(s.audio_queue) < AUDIO_QUEUE_MAX_SIZE) =>
                  ENABLED (producer_put(c)
                              /\ client'[c].audio_queue = Append(s.audio_queue, s.prod_frame)
                              /\ client'[c].receiver = s.receiver)
            /\ (s.consumer = "get" /\ s.audio_queue # <<>>) =>
                  ENABLED (consumer_get(c) /\ client'[c].cons_frame = Head(s.audio_queue)
                              /\ client'[c].receiver = s.receiver)
            /\ (s.consumer = "send" /\ s.ws = "open") =>
                  ENABLED (consumer_send(c) /\ Len(client'[c].wire) = Len(s.wire) + 1
                              /\ client'[c].receiver = s.receiver)
            /\ s.consumer = "sleep" => ENABLED consumer_sleep(c)

\* C28: the receiver waits inside save_call_data while the producer holds a
\* frame for the queue, the consumer holds one for the connection, and a
\* frame has been sent.
C28_Witness ==
    \E c \in 1..Len(client) :
        /\ client[c].receiver = "save"
        /\ client[c].producer = "put" /\ client[c].consumer = "send"
        /\ Len(FramesSent(c)) >= 1 /\ client[c].ws = "open" /\ client[c].running

\* C29: the frames sent on the connection are captured frames in strictly
\* increasing capture order, whatever was dropped on the way: none is sent
\* twice and none overtakes another.
C29_SentIsSubsequence ==
    \A c \in 1..Len(client) :
        /\ \A i \in 1..Len(FramesSent(c)) : FramesSent(c)[i] \in 1..client[c].captured
        /\ \A i, j \in 1..Len(FramesSent(c)) :
              i < j => FramesSent(c)[i] < FramesSent(c)[j]

\* C29: frame 1 was sent, the send of frame 2 timed out, frame 3 was sent.
C29_Witness ==
    \E c \in 1..Len(client) :
        /\ FramesSent(c) = <<1, 3>>
        /\ client[c].send_timeouts = {2}

\* The event numbers of a call log are strictly increasing.
InEventOrder(log) == \A i, j \in 1..Len(log) : i < j => log[i].evt < log[j].evt

\* C30: the receiver takes event n+1 only when it is at the head of its loop
\* with every earlier event handled, that is after the save_call_data and
\* send_notification calls of event n returned; while it waits in one of the
\* two calls exactly the newest event is unhandled; the save_call_data calls
\* and the send_notification calls are each in event order, and the
\* notification of an event comes after its save.
C30_EventsInOrder ==
    [][\A c \in 1..Len(client) :
          LET s == client[c]
              t == client'[c]
          IN  /\ Len(t.inbound) # Len(s.inbound) =>
                    /\ Len(t.inbound) = Len(s.inbound) + 1
                    /\ s.receiver = "recv" /\ s.handled = Len(s.inbound)
              /\ t.receiver \in {"save", "notify"} => t.handled = Len(t.inbound) - 1
              /\ InEventOrder(t.saved) /\ InEventOrder(t.notified)
              /\ Len(t.notified) # Len(s.notified) =>
                    /\ s.receiver # "notify" /\ t.receiver # "save"
                    /\ Calls(t.saved, t.notified[Len(t.notified)].evt) # {}
              /\ (Len(t.saved) # Len(s.saved) /\ t.receiver = "save") =>
                    Calls(t.notified, Len(t.inbound)) = {}]_vars

\* C30: two assessments were handled one after the other, each saved and
\* notified.
C30_Witness ==
    \E c \in 1..Len(client) :
        /\ client[c].handled = 2
        /\ Len(client[c].saved) = 2 /\ Len(client[c].notified) = 2
        /\ client[c].inbound[1].transcript.v.score.n = 6
        /\ client[c].inbound[2].transcript.v.score.n = 4
        /\ client[c].fcm_token = "tok-1"

\* C31: the save_call_data call and the send_notification call of one
\* assessment event carry the same phone number.
C31_SamePhoneNumber ==
    \A c \in 1..Len(client) :
        \A i \in 1..Len(client[c].saved) : \A j \in 1..Len(client[c].notified) :
            client[c].saved[i].evt = client[c].notified[j].evt =>
                client[c].saved[i].phone_number = client[c].notified[j].phone_number

\* A step that creates, mutates or destroys a session from outside its own
\* start() task: the handle is assigned or cleared, or running is cleared
\* or a capture resource released while start() stays where it is (the
\* close of the connection by a handler is followed by such a release).
OutsideMutation ==
    \/ realtime_client' # realtime_client
    \/ \E c \in 1..Len(client) :
          LET s == client[c]
              t == client'[c]
          IN  /\ t.start = s.start
              /\ \/ s.running /\ ~t.running
                 \/ t.input_stream # s.input_stream /\ t.input_stream = "closed"
                 \/ t.arecord_process # s.arecord_process /\ t.arecord_process = "closed"

\* The step is taken by a handler that holds client_lock: a request handler
\* that acquired it and ran to its return or to its await, or call_end
\* resuming inside its critical section.
UnderLock == env'.requests = env.requests - 1 \/ client_lock = "call_end"

\* C32: every creation, mutation and destruction of the active session from
\* outside is a step under client_lock, and while the shutdown handler is
\* suspended between its statements no other handler is inside its critical
\* section.
C32_LockDiscipline ==
    [][/\ OutsideMutation => UnderLock
       /\ env.shutdown = "close_ws" => client_lock = "free"]_vars

(* One invocation of save_call_data. *)
Failed(outcome) == outcome \in {"TimeoutError", "Exception"}

\* C33: save_call_data makes at most max_retries = 3 insert attempts; every
\* attempt but the last one made has failed, so a success is returned at once
\* and nothing is attempted after it; it sleeps for a retry only after a
\* failed first or second attempt; it returns None after the third failure
\* and never an exception; and every invocation returns.
C33_BoundedRetries ==
    /\ [](LET k == env.call
              n == Len(k.outcomes)
          IN  /\ n <= max_retries
              /\ \A i \in 1..(n - 1) : Failed(k.outcomes[i])
              /\ k.result \in {"none", None, "InsertOneResult"}
              /\ k.pos = "sleep" => n \in 1..(max_retries - 1) /\ Failed(k.outcomes[n])
              /\ k.pos = "insert" => n = k.attempt /\ Len(k.sleeps) = n
              /\ (k.pos = "returned" /\ n > 0) =>
                    IF Failed(k.outcomes[n])
                    THEN n = max_retries /\ k.result = None
                    ELSE k.result = k.outcomes[n])
    /\ <>(env.call.pos = "returned")

\* C33: two failed attempts were retried and the third failure was answered
\* with None.
C33_Witness ==
    /\ env.call.pos = "returned"
    /\ env.call.outcomes = <<"TimeoutError", "Exception", "TimeoutError">>
    /\ env.call.sleeps = <<1, 2>>
    /\ response = None

\* C34: save_call_data makes no insert attempt and returns None when
\* user_uuid or call_id is empty or the score is not an int in 1..10, and
\* only then; called by the receiver, whose call_id argument is never empty,
\* it rejects only for the score.
C34_InvalidInputRejected ==
    LET k == env.call
        Invalid == \/ k.user_uuid \in {None, ""} \/ k.call_id \in {None, ""}
                   \/ k.scam_score.t \notin {"int", "bool"}
                   \/ k.scam_score.n < 1 \/ k.scam_score.n > 10
    IN  /\ Invalid => k.outcomes = <<>> /\ k.pos \in {"call", "returned"}
        /\ (Invalid /\ k.pos = "returned") => k.result = None /\ response = None
        /\ (~Invalid /\ k.pos = "returned") => k.outcomes # <<>>
        /\ k.caller = "receiver" =>
              /\ k.call_id \notin {None, ""}
              /\ (k.pos = "returned" /\ k.outcomes = <<>>) =>
                    (k.scam_score.n < 1 \/ k.scam_score.n > 10)

\* C34: the receiver's call for a session without call_id was made with
\* "unknown" and score 11: it was rejected, for the score, with no insert
\* attempt.
C34_Witness ==
    /\ env.call.pos = "returned"
    /\ env.call.caller = "receiver" /\ env.call.call_id = "unknown"
    /\ env.call.scam_score = Scalar("int", 11)
    /\ env.call.outcomes = <<>> /\ response = None

\* C36: every send_notification call is made with the token stored on the
\* session at that moment; without a token nothing is sent, the call returns
\* at once and the receiver is back at the head of its loop; a send is
\* awaited only with a token.
C36_NoTokenNoSend ==
    [][\A c \in 1..Len(client) :
          LET s == client[c]
              t == client'[c]
          IN  /\ Len(t.notified) # Len(s.notified) =>
                    /\ t.notified[Len(t.notified)].token = s.fcm_token
                    /\ t.fcm_token = s.fcm_token
                    /\ IF s.fcm_token \in {None, ""}
                       THEN /\ t.receiver = "recv" /\ t.handled = Len(t.inbound)
                            /\ t.running = s.running /\ t.ws = s.ws
                       ELSE t.receiver = "notify"
              /\ t.receiver = "notify" =>
                    t.notified[Len(t.notified)].token \notin {None, ""}]_vars

\* C36: the session had a token when the assessment was dispatched and was
\* updated to none while save_call_data was awaited: send_notification was
\* called without a token, nothing was sent and the receiver went on.
C36_Witness ==
    \E c \in 1..Len(client) :
        /\ Len(client[c].notified) = 1 /\ client[c].notified[1].token = ""
        /\ client[c].dispatched[1].fcm_token = "tok-1"
        /\ client[c].notified[1].scam_score = 6
        /\ client[c].receiver = "recv" /\ client[c].handled = 1
        /\ client[c].running /\ client[c].ws = "open"

\* C37: once start() of a session has returned, by whatever path, running
\* is false, the connection is closed if one was opened, and no input stream,
\* output stream or capture process of the session is open.
C37_StartReleasesAll ==
    \A c \in 1..Len(client) :
        client[c].start = "done" =>
            /\ ~client[c].running
            /\ client[c].ws \in {None, "closed"}
            /\ client[c].connect_result = "True" => client[c].ws = "closed"
            /\ client[c].input_stream # "open"
            /\ client[c].output_stream # "open"
            /\ client[c].arecord_process # "open"

\* C37: start() returned after its three tasks had ended, frames had been
\* sent and no call/end had come: the connection is closed, the capture and
\* the output stream released.
C37_Witness ==
    \E c \in 1..Len(client) :
        /\ client[c].start = "done" /\ ~client[c].stopped /\ ~client[c].setup_error
        /\ Len(FramesSent(c)) >= 1
        /\ client[c].ws = "closed" /\ client[c].output_stream = "closed"
        /\ "closed" \in {client[c].input_stream, client[c].arecord_process}

\* cleanup() runs on session c in this step: at the end of call_end, or at
\* the end of start()'s finally clause.
CleanupRuns(c) ==
    \/ ~client[c].stopped /\ client'[c].stopped
    \/ client[c].start # "done" /\ client'[c].start = "done"

\* C38: no cleanup() finds the capture source of its session already
\* released, and a producer waiting in a read always reads an open source.
C38_ReleasedOnceNoReadPending ==
    [][\A c \in 1..Len(client) :
          /\ CleanupRuns(c) =>
                client[c].input_stream # "closed" /\ client[c].arecord_process # "closed"
          /\ client'[c].producer = "read" =>
                IF client'[c].source = "mic" THEN client'[c].input_stream = "open"
                ELSE client'[c].arecord_process = "open"]_vars

\* The categories a notification may carry.
ScamCategories == {"Possible Scam", "Definitely Scam"}

\* C39: every send_notification call carries a score that get_scam_category
\* labels "Possible Scam" or "Definitely Scam"; with the configured
\* NOTIFICATION_THRESHOLD that is so for every score the threshold test lets
\* through.
C39_NotifiedIsScam ==
    /\ \A c \in 1..Len(client) : \A i \in 1..Len(client[c].notified) :
          get_scam_category(client[c].notified[i].scam_score).category \in ScamCategories
    /\ \A n \in Scores :
          n >= NOTIFICATION_THRESHOLD => get_scam_category(n).category \in ScamCategories

\* C39: the score 11, beyond the scale, was notified: its category is
\* "Definitely Scam".
C39_Witness ==
    \E c \in 1..Len(client) :
        /\ Len(client[c].notified) = 1
        /\ client[c].notified[1].scam_score = 11
        /\ client[c].notified[1].token = "tok-1"
        /\ get_scam_category(11).category = "Definitely Scam"

====
